---- MODULE Spec2Model ----
(***************************************************************************)
(* A model of orbinum/groth16-proofs: the witness codecs (src/utils.rs),   *)
(* the circuit wrapper (src/circuit.rs), the native proof pipeline         *)
(* (src/proof.rs) and its two adapters, the command-line binary            *)
(* (src/bin/generate-proof-from-witness.rs) and the WASM binding           *)
(* (src/wasm.rs).                                                          *)
(*                                                                         *)
(* Text is a sequence of one-character strings.  A byte string is a        *)
(* sequence of numbers 0..255.  An unsigned big integer is a byte string   *)
(* read little-endian; a field element is the 32-byte little-endian form   *)
(* of a value below the BN254 scalar-field modulus.                        *)
(***************************************************************************)
EXTENDS Integers, Sequences, FiniteSets, TLC

VARIABLES
    adapter,    \* "none" | "cli" | "wasm": which entry point is running
    pc,         \* the statement the running entry point is at
    req,        \* the inputs of the call
    witness,    \* Vec<Bn254Fr>: the decoded witness
    circuit,    \* the WitnessCircuit handed to the prover
    cs,         \* the wires generate_constraints declared to the prover
    proof,      \* the proof bytes ("none" before the prover has run)
    count,      \* num_public_signals: None, and Some(n) once resolved
    signals,    \* public_signals once extracted
    trace,      \* the pipeline stages executed so far, in order
    stdout,     \* lines written to the output stream (CLI)
    stderr,     \* diagnostics written to the error stream (CLI)
    result,     \* how the call ended: exit code, Ok(..), Err(..) or a panic
    codec       \* the last codec call: function, input and result

vars == <<adapter, pc, req, witness, circuit, cs, proof, count, signals,
          trace, stdout, stderr, result, codec>>

(***************************************************************************)
(* Bounds of the model.                                                    *)
(***************************************************************************)
MaxWitnessLen == 7
MaxStart == 3
MaxStrLen == 4

(***************************************************************************)
(* Characters.                                                             *)
(***************************************************************************)
DecDigits == <<"0", "1", "2", "3", "4", "5", "6", "7", "8", "9">>
LowerHex == DecDigits \o <<"a", "b", "c", "d", "e", "f">>
UpperHex == DecDigits \o <<"A", "B", "C", "D", "E", "F">>

IndexOf(c, chars) ==
    IF \E i \in 1..Len(chars) : chars[i] = c
    THEN CHOOSE i \in 1..Len(chars) : chars[i] = c
    ELSE 0

\* The value of one hexadecimal digit, -1 for any other character.
HexVal(c) ==
    IF IndexOf(c, LowerHex) > 0 THEN IndexOf(c, LowerHex) - 1
    ELSE IF IndexOf(c, UpperHex) > 0 THEN IndexOf(c, UpperHex) - 1
    ELSE -1

\* The value of one decimal digit, -1 for any other character.
DecVal(c) == IndexOf(c, DecDigits) - 1

(***************************************************************************)
(* Unsigned big integers as little-endian byte strings.  The arithmetic    *)
(* works on limbs of three bytes, so that a 33-byte number takes eleven    *)
(* steps and every intermediate value is below 2^31.                       *)
(***************************************************************************)
Min(a, b) == IF a <= b THEN a ELSE b
Max(a, b) == IF a >= b THEN a ELSE b

Zeros(n) == [i \in 1..n |-> 0]

\* a padded with zero bytes at the most significant end, to n bytes.
PadTo(a, n) == IF Len(a) >= n THEN a ELSE a \o Zeros(n - Len(a))

\* A limb is three bytes.
LimbBase == 256 * 256 * 256

\* The number of limbs that hold n bytes.
NumLimbs(n) == (n + 2) \div 3

ByteAt(a, i) == IF i <= Len(a) THEN a[i] ELSE 0

\* Limb j of a, counted from 1 at the least significant end.
Limb(a, j) ==
    ByteAt(a, 3 * j - 2) + 256 * ByteAt(a, 3 * j - 1) + 65536 * ByteAt(a, 3 * j)

\* The three bytes of a limb.
LimbBytes(v) == <<v % 256, (v \div 256) % 256, (v \div 65536) % 256>>

RECURSIVE GeFrom(_, _, _)
\* a >= b, deciding from limb j downwards.
GeFrom(a, b, j) ==
    IF j = 0 THEN TRUE
    ELSE IF Limb(a, j) > Limb(b, j) THEN TRUE
    ELSE IF Limb(a, j) < Limb(b, j) THEN FALSE
    ELSE GeFrom(a, b, j - 1)

BigGe(a, b) == GeFrom(a, b, NumLimbs(Max(Len(a), Len(b))))

RECURSIVE AddFrom(_, _, _, _, _)
\* The limbs j..n of a + b, then the last carry.
AddFrom(a, b, j, n, carry) ==
    IF j > n THEN <<carry>>
    ELSE LET sum == Limb(a, j) + Limb(b, j) + carry
         IN  LimbBytes(sum % LimbBase)
                 \o AddFrom(a, b, j + 1, n, sum \div LimbBase)

\* a + b, in whole limbs and one byte of carry.
BigAdd(a, b) == AddFrom(a, b, 1, NumLimbs(Max(Len(a), Len(b))), 0)

RECURSIVE SubFrom(_, _, _, _, _)
\* The limbs j..n of a - b.
SubFrom(a, b, j, n, borrow) ==
    IF j > n THEN <<>>
    ELSE LET diff == Limb(a, j) - Limb(b, j) - borrow
         IN  LimbBytes((diff + LimbBase) % LimbBase)
                 \o SubFrom(a, b, j + 1, n, IF diff < 0 THEN 1 ELSE 0)

\* a - b for a >= b, in whole limbs.
BigSub(a, b) == SubFrom(a, b, 1, NumLimbs(Len(a)), 0)

RECURSIVE MulFrom(_, _, _, _, _)
\* The limbs j..n of a * m, then the last carry.
MulFrom(a, m, j, n, carry) ==
    IF j > n THEN <<carry>>
    ELSE LET prod == Limb(a, j) * m + carry
         IN  LimbBytes(prod % LimbBase)
                 \o MulFrom(a, m, j + 1, n, prod \div LimbBase)

\* a * m for a multiplier m of at most 128, in whole limbs and one byte of
\* carry.
BigMulSmall(a, m) == MulFrom(a, m, 1, NumLimbs(Len(a)), 0)

\* a without its most significant zero bytes (BigUint's normal form).
Normalize(a) ==
    LET used == {i \in 1..Len(a) : a[i] # 0}
    IN  IF used = {} THEN <<>>
        ELSE SubSeq(a, 1, CHOOSE i \in used : \A j \in used : j <= i)

BigEq(a, b) == Normalize(a) = Normalize(b)

(***************************************************************************)
(* The BN254 scalar field Fr.                                              *)
(***************************************************************************)
FieldBytes == 32

\* The modulus of Fr, 0x30644e72e131a029b85045b68181585d2833e84879b97091
\* 43e1f593f0000001, little-endian.
Modulus ==
    <<1, 0, 0, 240, 147, 245, 225, 67, 145, 112, 185, 121, 72, 232, 51, 40,
      93, 88, 129, 129, 182, 69, 80, 184, 41, 160, 49, 225, 114, 78, 100, 48>>

\* Modulus * 2^k for k in 0..7, each FieldBytes + 1 bytes long.
ModulusShifted ==
    [k \in 0..7 |-> SubSeq(BigMulSmall(Modulus, 2 ^ k), 1, FieldBytes + 1)]

RECURSIVE ReduceFrom(_, _)
\* t mod Modulus for t < Modulus * 2^(k+1), by conditional subtraction.
ReduceFrom(t, k) ==
    IF k < 0 THEN t
    ELSE IF BigGe(t, ModulusShifted[k])
         THEN ReduceFrom(BigSub(t, ModulusShifted[k]), k - 1)
         ELSE ReduceFrom(t, k - 1)

\* The bytes converted directly, without reduction: one fewer than the
\* modulus has, so that their value is below the modulus.
DirectBytes == FieldBytes - 1

RECURSIVE ModOrderFrom(_, _)
\* The value of bytes i.. (little-endian) reduced modulo the modulus, as
\* from_be_bytes_mod_order computes it: the most significant DirectBytes
\* bytes are taken as they are, then every lower byte is shifted in,
\* res = res * 256 + byte.  (The test on rest makes TLC compute it once,
\* before it is used.)
ModOrderFrom(bytes, i) ==
    IF Len(bytes) - i + 1 <= DirectBytes
    THEN PadTo(SubSeq(bytes, i, Len(bytes)), FieldBytes)
    ELSE LET rest == ModOrderFrom(bytes, i + 1)
         IN  IF Len(rest) = FieldBytes
             THEN SubSeq(ReduceFrom(<<bytes[i]>> \o rest, 7), 1, FieldBytes)
             ELSE rest

\* Fr::from_le_bytes_mod_order: the little-endian integer of bytes, reduced
\* modulo the field modulus.
from_le_bytes_mod_order(bytes) == ModOrderFrom(bytes, 1)

\* f.into_bigint().to_bytes_le(): the canonical 32 bytes of a field element.
to_bytes_le(f) == PadTo(f, FieldBytes)

IsCanonical(f) ==
    /\ Len(f) = FieldBytes
    /\ \A i \in 1..FieldBytes : f[i] \in 0..255
    /\ ~BigGe(f, Modulus)

(***************************************************************************)
(* The hex crate.                                                          *)
(***************************************************************************)
\* hex::decode: two digits per byte, the high nibble first; an odd digit
\* count or a character that is no hexadecimal digit is an error.
hex_decode(s) ==
    IF Len(s) % 2 = 1 THEN [ok |-> FALSE, err |-> "Odd number of digits"]
    ELSE IF \E i \in 1..Len(s) : HexVal(s[i]) < 0
    THEN [ok |-> FALSE, err |-> "Invalid character"]
    ELSE [ok |-> TRUE,
          val |-> [i \in 1..(Len(s) \div 2) |->
                      16 * HexVal(s[2 * i - 1]) + HexVal(s[2 * i])]]

\* hex::encode: two lower-case digits per byte.
hex_encode(bytes) ==
    [i \in 1..(2 * Len(bytes)) |->
        IF i % 2 = 1 THEN LowerHex[(bytes[(i + 1) \div 2] \div 16) + 1]
        ELSE LowerHex[(bytes[i \div 2] % 16) + 1]]

(***************************************************************************)
(* src/utils.rs                                                            *)
(***************************************************************************)
\* str::strip_prefix("0x")
strip_prefix_0x(s) ==
    IF Len(s) >= 2 /\ s[1] = "0" /\ s[2] = "x"
    THEN [some |-> TRUE, rest |-> SubSeq(s, 3, Len(s))]
    ELSE [some |-> FALSE, rest |-> s]

\* hex_to_field with the odd digit count padded at the end of the string.
hex_to_field_PadRight(hex_str) ==
    LET stripped == strip_prefix_0x(hex_str)
        hex_clean == IF stripped.some THEN stripped.rest ELSE hex_str
        hex_padded == IF Len(hex_clean) % 2 = 1 THEN hex_clean \o <<"0">>
                      ELSE hex_clean
        bytes == hex_decode(hex_padded)
    IN  IF ~bytes.ok
        THEN [ok |-> FALSE, err |-> "Failed to decode hex"]
        ELSE [ok |-> TRUE, val |-> from_le_bytes_mod_order(bytes.val)]

hex_to_field(hex_str) ==
    LET stripped == strip_prefix_0x(hex_str)
        hex_clean == IF stripped.some THEN stripped.rest ELSE hex_str
        hex_padded == IF Len(hex_clean) % 2 = 1 THEN <<"0">> \o hex_clean
                      ELSE hex_clean
        bytes == hex_decode(hex_padded)
    IN  IF ~bytes.ok
        THEN [ok |-> FALSE, err |-> "Failed to decode hex"]
        ELSE [ok |-> TRUE, val |-> from_le_bytes_mod_order(bytes.val)]

(***************************************************************************)
(* num-bigint.                                                             *)
(***************************************************************************)
\* s without its '_' characters.
SkipUnderscores(s) == SelectSeq(s, LAMBDA c : c # "_")

\* from_radix_digits_be multiplies by a power of the radix and adds that
\* many digits at a time.
ChunkDigits == 6

RECURSIVE ChunkValue(_, _, _)
\* The number written by the decimal digits a..b of s, at most ChunkDigits.
ChunkValue(s, a, b) ==
    IF b < a THEN 0 ELSE 10 * ChunkValue(s, a, b - 1) + DecVal(s[b])

RECURSIVE TimesTen(_, _)
\* a * 10^k, two digits at a time.
TimesTen(a, k) ==
    IF k = 0 THEN a
    ELSE IF k = 1 THEN Normalize(BigMulSmall(a, 10))
    ELSE TimesTen(Normalize(BigMulSmall(a, 100)), k - 2)

RECURSIVE DecimalValue(_, _)
\* The big integer written by the decimal digits 1..i of s, in normal form:
\* value(1..i) = 10^k * value(1..i-k) + value(i-k+1..i) for the last k digits.
\* (The test on rest makes TLC compute it once, before it is used.)
DecimalValue(s, i) ==
    IF i <= 0 THEN <<>>
    ELSE LET k == Min(i, ChunkDigits)
             rest == DecimalValue(s, i - k)
         IN  IF Len(rest) >= 0
             THEN Normalize(BigAdd(TimesTen(rest, k),
                                   LimbBytes(ChunkValue(s, i - k + 1, i))))
             ELSE rest

\* BigUint::parse_bytes(buf, 10), which is BigUint::from_str_radix: one
\* leading '+' is dropped (unless a second '+' follows it), the empty string
\* and a leading '_' are errors, any other '_' is skipped, and every
\* remaining character must be a digit of the radix.
parse_bytes_radix10(buf) ==
    LET s == IF Len(buf) >= 1 /\ buf[1] = "+"
                  /\ ~(Len(buf) >= 2 /\ buf[2] = "+")
             THEN Tail(buf) ELSE buf
        digits == SkipUnderscores(s)
    IN  IF s = <<>> THEN [some |-> FALSE]
        ELSE IF s[1] = "_" THEN [some |-> FALSE]
        ELSE IF \E i \in 1..Len(digits) : DecVal(digits[i]) < 0
        THEN [some |-> FALSE]
        ELSE [some |-> TRUE, val |-> DecimalValue(digits, Len(digits))]

\* BigUint::to_bytes_be: the same bytes, the most significant first.
biguint_to_bytes_be(n) ==
    IF Normalize(n) = <<>> THEN <<0>>
    ELSE [i \in 1..Len(Normalize(n)) |-> Normalize(n)[Len(Normalize(n)) + 1 - i]]

\* BigUint::to_bytes_le: the bytes without leading zeros; zero is one 0 byte.
biguint_to_bytes_le(n) == IF Normalize(n) = <<>> THEN <<0>> ELSE Normalize(n)

decimal_to_field(decimal_str) ==
    LET big_uint == parse_bytes_radix10(decimal_str)
    IN  IF ~big_uint.some
        THEN [ok |-> FALSE, err |-> "Failed to parse decimal string"]
        ELSE [ok |-> TRUE,
              val |-> from_le_bytes_mod_order(biguint_to_bytes_le(big_uint.val))]

(***************************************************************************)
(* Option<T> and the inputs the model draws.                               *)
(***************************************************************************)
None == [some |-> FALSE, val |-> <<>>]
Some(v) == [some |-> TRUE, val |-> v]

\* Option::or and Option::unwrap_or
OptionOr(a, b) == IF a.some THEN a ELSE b
UnwrapOr(a, default) == IF a.some THEN a.val ELSE default

\* usize::MAX of a 64-bit target, as a big integer.
UsizeMax == <<255, 255, 255, 255, 255, 255, 255, 255>>

\* The number a normal-form big integer below 2^24 stands for.
SmallInt(n) == Limb(n, 1)

\* A usize is a big integer in normal form, for it may be as large as
\* usize::MAX (0 is the empty byte string, 2^24 is <<0, 0, 0, 1>>).  Usize(k)
\* is the usize of a number k below 2^24 (a literal, a length);
\* UsizeLess(n, k) is n < k for such a k.
Usize(k) == Normalize(LimbBytes(k))
UsizeLess(n, k) == ~BigGe(n, Usize(k))

\* str::parse::<usize>: an optional '+', then one or more decimal digits and
\* nothing else; a value above usize::MAX is an error.
parse_usize(s) ==
    LET digits == IF Len(s) >= 1 /\ s[1] = "+" THEN Tail(s) ELSE s
    IN  IF digits = <<>> THEN None
        ELSE IF \E i \in 1..Len(digits) : DecVal(digits[i]) < 0 THEN None
        ELSE LET n == DecimalValue(digits, Len(digits))
             IN  IF BigGe(n, UsizeMax) /\ ~BigEq(n, UsizeMax) THEN None
                 ELSE Some(n)

\* The 0x-prefixed 64-digit little-endian form of a one-byte value.
Hex64(v) == <<"0", "x">> \o hex_encode(PadTo(<<v>>, FieldBytes))

AllOnes == <<"0", "x">> \o [i \in 1..(2 * FieldBytes) |-> "f"]

BadHex == <<"0", "x", "G", "G">>

\* Witness strings: the seven of the documented example (1, 10, .., 60) in
\* the documented form, then forms the decoder also accepts: short and odd,
\* unprefixed upper-case, 32 bytes of ones, the modulus itself, empty.
Pool ==
    <<Hex64(1), Hex64(10), Hex64(20), Hex64(30), Hex64(40), Hex64(50),
      Hex64(60), <<"0", "x", "1">>, <<"0", "A">>, AllOnes,
      <<"0", "x">> \o hex_encode(Modulus), <<>>>>

Window(n, off) == [i \in 1..n |-> Pool[((off + i - 1) % Len(Pool)) + 1]]

\* The witness arrays a request may carry: windows of the pool, as they are
\* or with the first or the last string replaced by an undecodable one.
WitnessInputs ==
    UNION { {Window(n, 3 * st)} \cup
            { [Window(n, 3 * st) EXCEPT ![k] = BadHex] : k \in {1, n} \cap 1..n }
          : n \in 0..MaxWitnessLen, st \in 0..MaxStart }

\* The third command-line argument: "3", "+5", "-1", 2^24 = "16777216" and a
\* number of 23 digits.
CountArgs ==
    { <<"3">>, <<"+", "5">>, <<"-", "1">>,
      <<"1", "6", "7", "7", "7", "2", "1", "6">>, [i \in 1..23 |-> "9"] }

\* The command lines: one, two, three (each of CountArgs) and four arguments
\* after the program name.
ArgInputs ==
    { <<"prog", "witness.json">>,
      <<"prog", "witness.json", "key.ark">>,
      <<"prog", "witness.json", "key.ark", <<"3">>, "extra">> }
    \cup { <<"prog", "witness.json", "key.ark", a>> : a \in CountArgs }

\* The num_public_signals field of the request JSON.
JsonCounts == {None, Some(Usize(2)), Some(Usize(7))}

CircuitTypes == {"unshield", "transfer", "disclosure", "unknown", "Transfer"}

(***************************************************************************)
(* src/circuit.rs                                                          *)
(***************************************************************************)
\* usize::clamp
clamp(v, lo, hi) == IF v < lo THEN lo ELSE IF v > hi THEN hi ELSE v

\* The public-input count WitnessCircuit estimates from the witness length.
num_public(w) == IF Len(w) > 1 THEN clamp(Len(w) \div 100, 1, 10) ELSE 0

\* The witness indices (counted from 0, as in the source) a..b in order.
Range(a, b) == [k \in 1..(b - a + 1) |-> a + k - 1]

\* generate_constraints with the private wires starting one element early.
generate_constraints_SkipPublic(w) ==
    LET declared == SelectSeq(Range(0, num_public(w) - 1),
                              LAMBDA i : i + 1 < Len(w))
    IN  [input |-> [k \in 1..Len(declared) |-> declared[k] + 1],
         witness |-> Range(num_public(w), Len(w) - 1)]

\* WitnessCircuit::generate_constraints: the witness indices declared with
\* cs.new_input_variable and with cs.new_witness_variable, in call order.
generate_constraints(w) ==
    LET declared == SelectSeq(Range(0, num_public(w) - 1),
                              LAMBDA i : i + 1 < Len(w))
    IN  [input |-> [k \in 1..Len(declared) |-> declared[k] + 1],
         witness |-> Range(num_public(w) + 1, Len(w) - 1)]

(***************************************************************************)
(* State shared by the entry points.                                       *)
(***************************************************************************)
NoResult == [kind |-> "none", code |-> 0, err |-> "", detail |-> "", val |-> <<>>]
NoCircuit == [built |-> FALSE, witness |-> <<>>]
NoWires == [input |-> <<>>, witness |-> <<>>]
NoCodec == [fn |-> "none", input |-> <<>>, out |-> [ok |-> FALSE, err |-> ""]]

Idle ==
    /\ adapter = "none"
    /\ pc = "idle"
    /\ req = [args |-> <<>>, circuit_type |-> "", witness |-> <<>>,
              num_public_signals |-> None]
    /\ witness = <<>>
    /\ circuit = NoCircuit
    /\ cs = NoWires
    /\ proof = "none"
    /\ count = None
    /\ signals = <<>>
    /\ trace = <<>>
    /\ stdout = <<>>
    /\ stderr = <<>>
    /\ result = NoResult

Init == Idle /\ codec = NoCodec

\* One stage of a run and how it ended.
Ran(stage, ok) == [stage |-> stage, ok |-> ok]

\* witness_hex.iter().map(hex_to_field).collect::<Result<Vec<_>, _>>(): the
\* field elements, or the error of the first string that has one.
decode_all(strings) ==
    LET decoded == [i \in 1..Len(strings) |-> hex_to_field(strings[i])]
    IN  IF \E i \in 1..Len(strings) : ~decoded[i].ok
        THEN [ok |-> FALSE,
              err |-> decoded[CHOOSE i \in 1..Len(strings) :
                                 /\ ~decoded[i].ok
                                 /\ \A j \in 1..(i - 1) : decoded[j].ok].err]
        ELSE [ok |-> TRUE, val |-> [i \in 1..Len(strings) |-> decoded[i].val]]

\* The encoding with the bytes in big-endian order.
encode_signal_BigEndian(f) ==
    <<"0", "x">> \o hex_encode([i \in 1..FieldBytes |->
                                   to_bytes_le(f)[FieldBytes + 1 - i]])

\* format!("0x{}", hex::encode(&bytes)) of a field element's bytes.
encode_signal(f) == <<"0", "x">> \o hex_encode(to_bytes_le(f))

\* The response envelope: the proof in hex and the public signals.
Envelope(proof_bytes, public_signals) ==
    [proof |-> <<"0x", proof_bytes>>, public_signals |-> public_signals]

\* The envelope of the WASM binding, its signals under the key publicSignals.
WasmEnvelope(proof_bytes, public_signals) ==
    [proof |-> <<"0x", proof_bytes>>, publicSignals |-> public_signals]

(***************************************************************************)
(* src/bin/generate-proof-from-witness.rs                                  *)
(***************************************************************************)
\* The failure exit with its message on the output stream.
CliExitFailure_Printed(msg, cause) ==
    /\ stdout' = Append(stdout, <<msg, cause>>)
    /\ result' = [kind |-> "exit", code |-> 1, err |-> msg, detail |-> cause,
                  val |-> <<>>]
    /\ pc' = "done"
    /\ UNCHANGED stderr

\* eprintln!(..) and std::process::exit(1): the closures of unwrap_or_else.
CliExitFailure(msg, cause) ==
    /\ stderr' = Append(stderr, <<msg, cause>>)
    /\ result' = [kind |-> "exit", code |-> 1, err |-> msg, detail |-> cause,
                  val |-> <<>>]
    /\ pc' = "done"
    /\ UNCHANGED stdout

\* args.get(3).and_then(|s| s.parse().ok())
cli_num_public(args) == IF Len(args) >= 4 THEN parse_usize(args[4]) ELSE None

\* The count resolved with the JSON field ahead of the argument.
resolve_count_JsonFirst(cli, json) == UnwrapOr(OptionOr(json, cli), Usize(5))

\* cli_num_public.or(input.num_public_signals).unwrap_or(5)
resolve_count(cli, json) == UnwrapOr(OptionOr(cli, json), Usize(5))

\* The first n strings, the constant wire included.
take_unskipped(strings, n) ==
    IF UsizeLess(n, Len(strings)) THEN SubSeq(strings, 1, SmallInt(n))
    ELSE strings

\* witness.iter().skip(1).take(n).cloned().collect(): the n strings after the
\* first, or all of them when there are no more than n.
skip1_take(strings, n) ==
    IF UsizeLess(n, Len(strings)) THEN SubSeq(strings, 2, SmallInt(n) + 1)
    ELSE SubSeq(strings, 2, Len(strings))

CliStart ==
    /\ pc = "idle"
    /\ \E args \in ArgInputs : req' = [req EXCEPT !.args = args]
    /\ adapter' = "cli"
    /\ pc' = "args"
    /\ UNCHANGED <<witness, circuit, cs, proof, count, signals, trace,
                   stdout, stderr, result, codec>>

\* The argument-count check and the usage message.
CliCheckArgs ==
    /\ adapter = "cli" /\ pc = "args"
    /\ IF Len(req.args) < 3 \/ Len(req.args) > 4
       THEN /\ CliExitFailure("Usage", "")
            /\ trace' = Append(trace, Ran("args", FALSE))
       ELSE /\ pc' = "read_witness"
            /\ trace' = Append(trace, Ran("args", TRUE))
            /\ UNCHANGED <<stdout, stderr, result>>
    /\ UNCHANGED <<adapter, req, witness, circuit, cs, proof, count, signals,
                   codec>>

\* std::fs::read_to_string(witness_path)
CliReadWitness ==
    /\ adapter = "cli" /\ pc = "read_witness"
    /\ \E readable \in BOOLEAN :
         /\ trace' = Append(trace, Ran("read_witness", readable))
         /\ IF readable
            THEN pc' = "parse_json" /\ UNCHANGED <<stdout, stderr, result>>
            ELSE CliExitFailure("Failed to read witness file", "")
    /\ UNCHANGED <<adapter, req, witness, circuit, cs, proof, count, signals,
                   codec>>

\* serde_json::from_str::<WitnessInput>, then the "Generating proof" line.
CliParseJson ==
    /\ adapter = "cli" /\ pc = "parse_json"
    /\ \/ /\ trace' = Append(trace, Ran("parse_json", FALSE))
          /\ CliExitFailure("Failed to parse witness JSON", "")
          /\ UNCHANGED req
       \/ \E w \in WitnessInputs, n \in JsonCounts :
            /\ req' = [req EXCEPT !.witness = w, !.num_public_signals = n]
            /\ trace' = Append(trace, Ran("parse_json", TRUE))
            /\ stderr' = Append(stderr, <<"Generating proof", Len(w)>>)
            /\ pc' = "decode"
            /\ UNCHANGED <<stdout, result>>
    /\ UNCHANGED <<adapter, witness, circuit, cs, proof, count, signals,
                   codec>>

(***************************************************************************)
(* src/proof.rs: generate_proof_from_witness, as the binary calls it.  Its *)
(* Err(e) reaches the binary's closure, which prints                       *)
(* "Proof generation failed: e" and exits with 1.                          *)
(***************************************************************************)
\* 1. Convert hex witness to field elements
LibDecodeWitness ==
    /\ adapter = "cli" /\ pc = "decode"
    /\ LET decoded == decode_all(req.witness)
       IN  /\ trace' = Append(trace, Ran("decode", decoded.ok))
           /\ IF decoded.ok
              THEN /\ witness' = decoded.val
                   /\ pc' = "read_key"
                   /\ UNCHANGED <<stdout, stderr, result>>
              ELSE /\ CliExitFailure("Proof generation failed", decoded.err)
                   /\ UNCHANGED witness
    /\ UNCHANGED <<adapter, req, circuit, cs, proof, count, signals, codec>>

\* 2. Load proving key: std::fs::read
LibReadKey ==
    /\ adapter = "cli" /\ pc = "read_key"
    /\ \E readable \in BOOLEAN :
         /\ trace' = Append(trace, Ran("read_key", readable))
         /\ IF readable
            THEN pc' = "deserialize_key" /\ UNCHANGED <<stdout, stderr, result>>
            ELSE CliExitFailure("Proof generation failed",
                                "Failed to read proving key")
    /\ UNCHANGED <<adapter, req, witness, circuit, cs, proof, count, signals,
                   codec>>

\* The key stage going on to the next stage whatever the key is.
LibDeserializeKey_Continue ==
    /\ adapter = "cli" /\ pc = "deserialize_key"
    /\ \E valid \in BOOLEAN :
         /\ trace' = Append(trace, Ran("deserialize_key", valid))
         /\ pc' = "build_circuit"
         /\ UNCHANGED <<stdout, stderr, result>>
    /\ UNCHANGED <<adapter, req, witness, circuit, cs, proof, count, signals,
                   codec>>

\* ProvingKey::deserialize_compressed
LibDeserializeKey ==
    /\ adapter = "cli" /\ pc = "deserialize_key"
    /\ \E valid \in BOOLEAN :
         /\ trace' = Append(trace, Ran("deserialize_key", valid))
         /\ IF valid
            THEN pc' = "build_circuit" /\ UNCHANGED <<stdout, stderr, result>>
            ELSE CliExitFailure("Proof generation failed",
                                "Failed to deserialize proving key")
    /\ UNCHANGED <<adapter, req, witness, circuit, cs, proof, count, signals,
                   codec>>

\* 3. Create circuit with witness
LibBuildCircuit ==
    /\ adapter = "cli" /\ pc = "build_circuit"
    /\ circuit' = [built |-> TRUE, witness |-> witness]
    /\ trace' = Append(trace, Ran("build_circuit", TRUE))
    /\ pc' = "prove"
    /\ UNCHANGED <<adapter, req, witness, cs, proof, count, signals, stdout,
                   stderr, result, codec>>

\* 4. Groth16::prove, which has the circuit declare its wires and then
\* succeeds or fails as the proving key decides.
LibProve ==
    /\ adapter = "cli" /\ pc = "prove"
    /\ cs' = generate_constraints(circuit.witness)
    /\ \E proved \in BOOLEAN :
         /\ trace' = Append(trace, Ran("prove", proved))
         /\ IF proved
            THEN /\ proof' = "proof bytes"
                 /\ pc' = "serialize_proof"
                 /\ UNCHANGED <<stdout, stderr, result>>
            ELSE /\ CliExitFailure("Proof generation failed",
                                   "Failed to generate proof")
                 /\ UNCHANGED proof
    /\ UNCHANGED <<adapter, req, witness, circuit, count, signals, codec>>

\* 5. serialize_compressed, then the binary's "Proof generated" line.
LibSerializeProof ==
    /\ adapter = "cli" /\ pc = "serialize_proof"
    /\ \E written \in BOOLEAN :
         /\ trace' = Append(trace, Ran("serialize_proof", written))
         /\ IF written
            THEN /\ stderr' = Append(stderr, <<"Proof generated", 128>>)
                 /\ pc' = "derive_signals"
                 /\ UNCHANGED <<stdout, result>>
            ELSE CliExitFailure("Proof generation failed",
                                "Failed to serialize proof")
    /\ UNCHANGED <<adapter, req, witness, circuit, cs, proof, count, signals,
                   codec>>

(***************************************************************************)
(* src/bin/generate-proof-from-witness.rs, after the proof.                *)
(***************************************************************************)
\* The count, the "Extracting" line, the public signals and the warning.
CliDeriveSignals ==
    /\ adapter = "cli" /\ pc = "derive_signals"
    /\ LET num_public_signals ==
               resolve_count(cli_num_public(req.args), req.num_public_signals)
           public_signals == skip1_take(req.witness, num_public_signals)
           extracting == Append(stderr, <<"Extracting", num_public_signals>>)
       IN  /\ count' = Some(num_public_signals)
           /\ signals' = public_signals
           /\ stderr' = IF Usize(Len(public_signals)) # num_public_signals
                        THEN Append(extracting,
                                    <<"Warning: Expected", num_public_signals,
                                      Len(public_signals)>>)
                        ELSE extracting
    /\ trace' = Append(trace, Ran("derive_signals", TRUE))
    /\ pc' = "output"
    /\ UNCHANGED <<adapter, req, witness, circuit, cs, proof, stdout, result,
                   codec>>

\* serde_json::to_string(&output) and println!
CliOutput ==
    /\ adapter = "cli" /\ pc = "output"
    /\ \E serialized \in BOOLEAN :
         /\ trace' = Append(trace, Ran("output", serialized))
         /\ IF serialized
            THEN /\ stdout' = Append(stdout, Envelope(proof, signals))
                 /\ result' = [kind |-> "exit", code |-> 0, err |-> "",
                               detail |-> "", val |-> <<>>]
                 /\ pc' = "done"
                 /\ UNCHANGED stderr
            ELSE CliExitFailure("Failed to serialize output", "")
    /\ UNCHANGED <<adapter, req, witness, circuit, cs, proof, count, signals,
                   codec>>

(***************************************************************************)
(* src/wasm.rs: generate_proof_wasm                                        *)
(***************************************************************************)
\* return Err(JsValue::from_str(..)), also through map_err and `?`.
WasmReturnErr(msg, cause) ==
    /\ result' = [kind |-> "err", code |-> 0, err |-> msg, detail |-> cause,
                  val |-> <<>>]
    /\ pc' = "done"

\* The match with a default count for the types it does not name.
circuit_type_count_Default(circuit_type) ==
    CASE circuit_type = "unshield" -> Some(Usize(5))
      [] circuit_type = "transfer" -> Some(Usize(5))
      [] circuit_type = "disclosure" -> Some(Usize(4))
      [] OTHER -> Some(Usize(5))

\* The match on circuit_type.
circuit_type_count(circuit_type) ==
    CASE circuit_type = "unshield" -> Some(Usize(5))
      [] circuit_type = "transfer" -> Some(Usize(5))
      [] circuit_type = "disclosure" -> Some(Usize(4))
      [] OTHER -> None

\* witness[1..=n], n a count of the match above: the slice, or the panic of
\* an index out of range, "range start index 1 out of range for slice of
\* length 0" on an empty witness and "range end index .. out of range for
\* slice of length .." on any other of fewer than n + 1 elements.
slice_1_to(w, n) ==
    IF Len(w) < 1
    THEN [panic |-> TRUE, err |-> "range start index out of range", val |-> <<>>]
    ELSE IF ~UsizeLess(n, Len(w))
    THEN [panic |-> TRUE, err |-> "range end index out of range", val |-> <<>>]
    ELSE [panic |-> FALSE, err |-> "", val |-> SubSeq(w, 2, SmallInt(n) + 1)]

WasmStart ==
    /\ pc = "idle"
    /\ \E ct \in CircuitTypes : req' = [req EXCEPT !.circuit_type = ct]
    /\ adapter' = "wasm"
    /\ pc' = "parse_json"
    /\ UNCHANGED <<witness, circuit, cs, proof, count, signals, trace,
                   stdout, stderr, result, codec>>

\* serde_json::from_str::<Vec<String>>(witness_json)
WasmParseJson ==
    /\ adapter = "wasm" /\ pc = "parse_json"
    /\ \/ /\ trace' = Append(trace, Ran("parse_json", FALSE))
          /\ WasmReturnErr("Failed to parse witness JSON", "")
          /\ UNCHANGED req
       \/ \E w \in WitnessInputs :
            /\ req' = [req EXCEPT !.witness = w]
            /\ trace' = Append(trace, Ran("parse_json", TRUE))
            /\ pc' = "decode"
            /\ UNCHANGED result
    /\ UNCHANGED <<adapter, witness, circuit, cs, proof, count, signals,
                   stdout, stderr, codec>>

WasmDecodeWitness ==
    /\ adapter = "wasm" /\ pc = "decode"
    /\ LET decoded == decode_all(req.witness)
       IN  /\ trace' = Append(trace, Ran("decode", decoded.ok))
           /\ IF decoded.ok
              THEN witness' = decoded.val /\ pc' = "deserialize_key"
                   /\ UNCHANGED result
              ELSE WasmReturnErr(decoded.err, "") /\ UNCHANGED witness
    /\ UNCHANGED <<adapter, req, circuit, cs, proof, count, signals, stdout,
                   stderr, codec>>

WasmDeserializeKey ==
    /\ adapter = "wasm" /\ pc = "deserialize_key"
    /\ \E valid \in BOOLEAN :
         /\ trace' = Append(trace, Ran("deserialize_key", valid))
         /\ IF valid
            THEN pc' = "build_circuit" /\ UNCHANGED result
            ELSE WasmReturnErr("Failed to deserialize proving key", "")
    /\ UNCHANGED <<adapter, req, witness, circuit, cs, proof, count, signals,
                   stdout, stderr, codec>>

WasmBuildCircuit ==
    /\ adapter = "wasm" /\ pc = "build_circuit"
    /\ circuit' = [built |-> TRUE, witness |-> witness]
    /\ trace' = Append(trace, Ran("build_circuit", TRUE))
    /\ pc' = "prove"
    /\ UNCHANGED <<adapter, req, witness, cs, proof, count, signals, stdout,
                   stderr, result, codec>>

WasmProve ==
    /\ adapter = "wasm" /\ pc = "prove"
    /\ cs' = generate_constraints(circuit.witness)
    /\ \E proved \in BOOLEAN :
         /\ trace' = Append(trace, Ran("prove", proved))
         /\ IF proved
            THEN proof' = "proof bytes" /\ pc' = "serialize_proof"
                 /\ UNCHANGED result
            ELSE WasmReturnErr("Failed to generate proof", "")
                 /\ UNCHANGED proof
    /\ UNCHANGED <<adapter, req, witness, circuit, count, signals, stdout,
                   stderr, codec>>

WasmSerializeProof ==
    /\ adapter = "wasm" /\ pc = "serialize_proof"
    /\ \E written \in BOOLEAN :
         /\ trace' = Append(trace, Ran("serialize_proof", written))
         /\ IF written
            THEN pc' = "derive_signals" /\ UNCHANGED result
            ELSE WasmReturnErr("Failed to serialize proof", "")
    /\ UNCHANGED <<adapter, req, witness, circuit, cs, proof, count, signals,
                   stdout, stderr, codec>>

\* "Extract public signals": the count of the circuit type, the slice
\* witness[1..=count] and its encoding.
WasmDeriveSignals ==
    /\ adapter = "wasm" /\ pc = "derive_signals"
    /\ LET num_public_signals == circuit_type_count(req.circuit_type)
           slice == slice_1_to(witness, num_public_signals.val)
       IN  IF ~num_public_signals.some
           THEN /\ WasmReturnErr("Unknown circuit type", req.circuit_type)
                /\ trace' = Append(trace, Ran("derive_signals", FALSE))
                /\ UNCHANGED <<count, signals>>
           ELSE /\ count' = num_public_signals
                /\ trace' = Append(trace, Ran("derive_signals", ~slice.panic))
                /\ IF slice.panic
                   THEN /\ result' = [kind |-> "panic", code |-> 0,
                                      err |-> slice.err,
                                      detail |-> "", val |-> <<>>]
                        /\ pc' = "done"
                        /\ UNCHANGED signals
                   ELSE /\ signals' = [i \in 1..Len(slice.val) |->
                                          encode_signal(slice.val[i])]
                        /\ pc' = "output"
                        /\ UNCHANGED result
    /\ UNCHANGED <<adapter, req, witness, circuit, cs, proof, stdout, stderr,
                   codec>>

\* serde_json::json!({..}) and serde_json::to_string
WasmOutput ==
    /\ adapter = "wasm" /\ pc = "output"
    /\ \E serialized \in BOOLEAN :
         /\ trace' = Append(trace, Ran("output", serialized))
         /\ IF serialized
            THEN /\ result' = [kind |-> "ok", code |-> 0, err |-> "",
                               detail |-> "",
                               val |-> WasmEnvelope(proof, signals)]
                 /\ pc' = "done"
            ELSE WasmReturnErr("Failed to serialize output", "")
    /\ UNCHANGED <<adapter, req, witness, circuit, cs, proof, count, signals,
                   stdout, stderr, codec>>

(***************************************************************************)
(* The two entry points, one call each.                                    *)
(***************************************************************************)
Next ==
    \/ CliStart \/ CliCheckArgs \/ CliReadWitness \/ CliParseJson
    \/ LibDecodeWitness \/ LibReadKey \/ LibDeserializeKey \/ LibBuildCircuit
    \/ LibProve \/ LibSerializeProof \/ CliDeriveSignals \/ CliOutput
    \/ WasmStart \/ WasmParseJson \/ WasmDecodeWitness \/ WasmDeserializeKey
    \/ WasmBuildCircuit \/ WasmProve \/ WasmSerializeProof
    \/ WasmDeriveSignals \/ WasmOutput

Spec == Init /\ [][Next]_vars

(***************************************************************************)
(* The codecs called on their own.                                         *)
(***************************************************************************)
\* The characters short inputs are made of: decimal digits, a lower-case and
\* an upper-case hex digit, the 'x' of the prefix, a sign and a separator.
Alphabet == {"0", "1", "a", "F", "x", "+", "_"}

\* Every string over the alphabet of at most MaxStrLen characters.
ShortInputs == UNION { [1..k -> Alphabet] : k \in 0..MaxStrLen }

\* The text of a sequence of decimal digits.
Digits(ds) == [i \in 1..Len(ds) |-> DecDigits[ds[i] + 1]]

\* The modulus, the modulus less one and 2^256 - 1 in decimal, and the
\* 20-digit number of test_decimal_to_field_large.
DecModulus ==
    Digits(<<2, 1, 8, 8, 8, 2, 4, 2, 8, 7, 1, 8, 3, 9, 2, 7, 5, 2, 2, 2,
           2, 4, 6, 4, 0, 5, 7, 4, 5, 2, 5, 7, 2, 7, 5, 0, 8, 8, 5, 4,
           8, 3, 6, 4, 4, 0, 0, 4, 1, 6, 0, 3, 4, 3, 4, 3, 6, 9, 8, 2,
           0, 4, 1, 8, 6, 5, 7, 5, 8, 0, 8, 4, 9, 5, 6, 1, 7>>)
DecModulusLessOne ==
    Digits(<<2, 1, 8, 8, 8, 2, 4, 2, 8, 7, 1, 8, 3, 9, 2, 7, 5, 2, 2, 2,
           2, 4, 6, 4, 0, 5, 7, 4, 5, 2, 5, 7, 2, 7, 5, 0, 8, 8, 5, 4,
           8, 3, 6, 4, 4, 0, 0, 4, 1, 6, 0, 3, 4, 3, 4, 3, 6, 9, 8, 2,
           0, 4, 1, 8, 6, 5, 7, 5, 8, 0, 8, 4, 9, 5, 6, 1, 6>>)
DecAllOnes ==
    Digits(<<1, 1, 5, 7, 9, 2, 0, 8, 9, 2, 3, 7, 3, 1, 6, 1, 9, 5, 4, 2,
           3, 5, 7, 0, 9, 8, 5, 0, 0, 8, 6, 8, 7, 9, 0, 7, 8, 5, 3, 2,
           6, 9, 9, 8, 4, 6, 6, 5, 6, 4, 0, 5, 6, 4, 0, 3, 9, 4, 5, 7,
           5, 8, 4, 0, 0, 7, 9, 1, 3, 1, 2, 9, 6, 3, 9, 9, 3, 5>>)
DecLarge == Digits(<<1, 2, 3, 4, 5, 6, 7, 8, 9, 0, 1, 2, 3, 4, 5, 6, 7, 8, 9, 0>>)

NotANumber == <<"n", "o", "t", "_", "a", "_", "n", "u", "m", "b", "e", "r">>

\* Longer inputs: the witness strings of the pool, the strings of the
\* repository's tests, 33 bytes of ones, an upper-case prefix, and the
\* decimal numbers above.
LongInputs ==
    { Pool[i] : i \in 1..Len(Pool) }
    \cup { BadHex, <<"0", "x", "G", "G", "G", "G">>, <<"0", "X", "0", "1">>,
           <<"0", "x">> \o [i \in 1..(2 * FieldBytes + 2) |-> "f"],
           [i \in 1..(2 * FieldBytes) |-> "F"], NotANumber,
           DecModulus, DecModulusLessOne, DecAllOnes, DecLarge }

CodecInputs == ShortInputs \cup LongInputs

\* A call not yet made, with its argument.
CodecInit ==
    /\ Idle
    /\ \E s \in CodecInputs : codec = [NoCodec EXCEPT !.input = s]

CallHexToField ==
    /\ codec.fn = "none"
    /\ codec' = [codec EXCEPT !.fn = "hex_to_field",
                              !.out = hex_to_field(codec.input)]
    /\ UNCHANGED <<adapter, pc, req, witness, circuit, cs, proof, count,
                   signals, trace, stdout, stderr, result>>

CallDecimalToField ==
    /\ codec.fn = "none"
    /\ codec' = [codec EXCEPT !.fn = "decimal_to_field",
                              !.out = decimal_to_field(codec.input)]
    /\ UNCHANGED <<adapter, pc, req, witness, circuit, cs, proof, count,
                   signals, trace, stdout, stderr, result>>

CodecNext == CallHexToField \/ CallDecimalToField

CodecSpec == CodecInit /\ [][CodecNext]_vars

(***************************************************************************)
(* Properties.                                                             *)
(***************************************************************************)
Last(q) == q[Len(q)]

StageRan(stage) == \E i \in 1..Len(trace) : trace[i].stage = stage
StageOk(stage) == \E i \in 1..Len(trace) : trace[i] = Ran(stage, TRUE)
Failed == trace # <<>> /\ ~Last(trace).ok

\* The stages of each entry point in the order the pipeline prescribes:
\* decode, load the key, build the circuit, prove, serialize, derive the
\* public signals.  The binary reads its arguments and its witness file
\* first; the WASM binding is handed the key bytes and reads no file.
StageOrder ==
    [cli |-> <<"args", "read_witness", "parse_json", "decode", "read_key",
               "deserialize_key", "build_circuit", "prove", "serialize_proof",
               "derive_signals", "output">>,
     wasm |-> <<"parse_json", "decode", "deserialize_key", "build_circuit",
                "prove", "serialize_proof", "derive_signals", "output">>]

\* The error each stage reports when it is the one that fails.
StageErrors ==
    [args |-> {"Usage"},
     read_witness |-> {"Failed to read witness file"},
     parse_json |-> {"Failed to parse witness JSON"},
     decode |-> {"Failed to decode hex"},
     read_key |-> {"Failed to read proving key"},
     deserialize_key |-> {"Failed to deserialize proving key"},
     build_circuit |-> {},
     prove |-> {"Failed to generate proof"},
     serialize_proof |-> {"Failed to serialize proof"},
     derive_signals |-> {"Unknown circuit type", "range end index out of range",
                         "range start index out of range"},
     output |-> {"Failed to serialize output"}]

\* The error the caller is given: the library's message is what follows the
\* binary's "Proof generation failed".
ReportedError ==
    IF result.err = "Proof generation failed" THEN result.detail ELSE result.err

Ended == result.kind # "none"
EndedInError ==
    \/ result.kind \in {"err", "panic"}
    \/ result.kind = "exit" /\ result.code # 0

\* C1: the stages run in the fixed order, none skipped; a stage that fails is
\* the last one to run, the run ends there, and the error reported is that
\* stage's own; a run that ends in an error has a failed stage.
C1_FailFastInOrder ==
    adapter # "none" =>
        /\ Len(trace) <= Len(StageOrder[adapter])
        /\ \A i \in 1..Len(trace) : trace[i].stage = StageOrder[adapter][i]
        /\ \A i \in 1..(Len(trace) - 1) : trace[i].ok
        /\ Failed => /\ pc = "done"
                     /\ EndedInError
                     /\ ReportedError \in StageErrors[Last(trace).stage]
        /\ EndedInError => Failed
        /\ Ended => pc = "done"

\* A readable but malformed key: the run has ended with the key's error, the
\* prover never ran.
C1_Witness ==
    /\ Failed
    /\ Last(trace).stage = "deserialize_key"
    /\ ReportedError = "Failed to deserialize proving key"
    /\ ~StageRan("prove")
    /\ \E i \in 1..Len(req.witness) : req.witness[i] # BadHex

\* C2: in the binary, a failed stage means a non-zero exit and an empty
\* output stream; nothing is written before the exit; an exit with 0 has
\* written exactly one line, the response envelope.
C2_CliOutputStream ==
    adapter = "cli" =>
        /\ Failed => /\ result.kind = "exit"
                     /\ result.code # 0
                     /\ stdout = <<>>
        /\ ~Ended => stdout = <<>>
        /\ (result.kind = "exit" /\ result.code # 0) => stdout = <<>>
        /\ (result.kind = "exit" /\ result.code = 0) =>
              /\ ~Failed
              /\ stdout = <<Envelope(proof, signals)>>
              /\ proof # "none"

\* The proof was generated and its serialization failed: exit 1, no output.
C2_Witness ==
    /\ adapter = "cli"
    /\ proof # "none"
    /\ Failed
    /\ Last(trace).stage = "serialize_proof"
    /\ result.code = 1
    /\ stdout = <<>>

\* A count as the third argument: an optional '+' and decimal digits (of this
\* model's arguments the one of 23 digits is beyond every usize and so is no
\* count), and the number it writes.
CountDigits(s) == IF s # <<>> /\ s[1] = "+" THEN Tail(s) ELSE s
IsCountArg(s) ==
    /\ CountDigits(s) # <<>>
    /\ Len(CountDigits(s)) <= 9
    /\ \A i \in 1..Len(CountDigits(s)) : DecVal(CountDigits(s)[i]) >= 0
CountArgValue(s) ==
    LET d == CountDigits(s)
        v[i \in 0..Len(d)] == IF i = 0 THEN 0 ELSE 10 * v[i - 1] + DecVal(d[i])
    IN  v[Len(d)]

\* The usize of a number below 2^31, and the number of the resolved count
\* when that is below 2^31.
CountBytes(v) ==
    Normalize(<<v % 256, (v \div 256) % 256, (v \div 65536) % 256,
                v \div 16777216>>)
CountValue == Limb(count.val, 1) + LimbBase * Limb(count.val, 2)

\* The count is resolved and the witness has at least count + 1 elements.
WitnessCovers ==
    count.some /\ ~BigGe(count.val, CountBytes(Len(req.witness)))

\* C3: the binary's count is the third argument when that is a count, else
\* the request's num_public_signals when it has one, else 5.
C3_CountPriority ==
    (adapter = "cli" /\ StageRan("derive_signals")) =>
        IF Len(req.args) = 4 /\ IsCountArg(req.args[4])
        THEN count = Some(CountBytes(CountArgValue(req.args[4])))
        ELSE IF req.num_public_signals.some
        THEN count = Some(req.num_public_signals.val)
        ELSE count = Some(CountBytes(5))

\* The argument 3 against a request whose JSON says 7.
C3_Witness ==
    /\ adapter = "cli"
    /\ StageRan("derive_signals")
    /\ Len(req.args) = 4
    /\ req.args[4] = <<"3">>
    /\ req.num_public_signals = Some(CountBytes(7))
    /\ count = Some(CountBytes(3))

\* The private signals of the partition: the witness after the public ones.
PrivateSignals == SubSeq(req.witness, CountValue + 2, Len(req.witness))

\* C4: for a witness of at least count + 1 elements the public signals are
\* the count elements after the constant wire, in witness order, and the
\* constant wire, the public and the private signals make up the witness.
C4_PublicSignalsAreSlice ==
    (StageOk("derive_signals") /\ WitnessCovers) =>
        /\ Len(signals) = CountValue
        /\ \A i \in 1..CountValue :
              /\ hex_to_field(signals[i]).ok
              /\ hex_to_field(signals[i]).val = hex_to_field(req.witness[i + 1]).val
        /\ PrivateSignals = [i \in 1..(Len(req.witness) - CountValue - 1) |->
                                req.witness[CountValue + 1 + i]]
        /\ 1 + Len(signals) + Len(PrivateSignals) = Len(req.witness)

\* The documented example: the witness 1, 10, 20, 30, 40, 50, 60 and the
\* count 5 give 10, 20, 30, 40, 50.
C4_Witness ==
    /\ StageOk("derive_signals")
    /\ req.witness = Window(7, 0)
    /\ count = Some(CountBytes(5))
    /\ signals = <<Hex64(10), Hex64(20), Hex64(30), Hex64(40), Hex64(50)>>

\* C5: a witness shorter than count + 1 never ends a run abnormally: the
\* run reports the shortfall, as an error or as a warning next to the
\* witness elements there are.
C5_ShortWitnessReported ==
    (StageRan("derive_signals") /\ count.some /\ ~WitnessCovers) =>
        /\ result.kind # "panic"
        /\ \/ result.kind = "err"
           \/ /\ \E i \in 1..Len(stderr) : stderr[i][1] = "Warning: Expected"
              /\ Len(signals) = Max(Len(req.witness) - 1, 0)

\* C6: the circuit declares the witness indices 1..count public, count being
\* the count the caller resolved, and every index after them private.
C6_CircuitPublicWires ==
    (StageRan("prove") /\ WitnessCovers) =>
        /\ cs.input = Range(1, CountValue)
        /\ cs.witness = Range(CountValue + 1, Len(req.witness) - 1)

\* The counts of the circuit types.
KnownTypes == {"unshield", "transfer", "disclosure"}
TypeCount == [unshield |-> 5, transfer |-> 5, disclosure |-> 4]

\* C7, as the code has it: the WASM binding's count is that of the circuit
\* type; a call with any other circuit type returns an error and no proof,
\* and that error is "Unknown circuit type: <the value>" exactly when the
\* JSON, the witness, the key, the proof and its serialization were all good;
\* otherwise it is the error of the stage that failed.
C7_CountFromCircuitType ==
    adapter = "wasm" =>
        /\ count.some => /\ req.circuit_type \in KnownTypes
                         /\ count = Some(CountBytes(TypeCount[req.circuit_type]))
        /\ (StageRan("derive_signals") /\ req.circuit_type \in KnownTypes)
               => count = Some(CountBytes(TypeCount[req.circuit_type]))
        /\ (pc = "done" /\ req.circuit_type \notin KnownTypes) =>
              /\ result.kind = "err"
              /\ result.val = <<>>
              /\ StageOk("serialize_proof") <=>
                    /\ result.err = "Unknown circuit type"
                    /\ result.detail = req.circuit_type

\* A proof was generated for a circuit type the binding does not know: the
\* call returns the error that names it.
C7_Witness ==
    /\ adapter = "wasm"
    /\ req.circuit_type = "Transfer"
    /\ proof # "none"
    /\ result.kind = "err"
    /\ result.err = "Unknown circuit type"
    /\ result.detail = "Transfer"

\* C7 as stated: every call with another circuit type fails with "Unknown
\* circuit type: <the value>".
C7_AlwaysUnknownTypeError ==
    (adapter = "wasm" /\ pc = "done" /\ req.circuit_type \notin KnownTypes) =>
        /\ result.kind = "err"
        /\ result.err = "Unknown circuit type"
        /\ result.detail = req.circuit_type

\* The public signals of a response that was delivered.
Delivered ==
    \/ adapter = "cli" /\ result.kind = "exit" /\ result.code = 0
    \/ adapter = "wasm" /\ result.kind = "ok"
DeliveredSignals ==
    IF adapter = "cli" THEN stdout[1].public_signals
    ELSE result.val.publicSignals

\* "0x", then 64 lower-case hexadecimal digits.
IsCanonicalHex(s) ==
    /\ Len(s) = 2 + 2 * FieldBytes
    /\ s[1] = "0" /\ s[2] = "x"
    /\ \A i \in 3..Len(s) : \E k \in 1..Len(LowerHex) : s[i] = LowerHex[k]

\* C8: every public signal of a delivered response, from the binary and
\* from the WASM binding alike, is "0x" and 64 lower-case hex digits, the
\* encoding of the field element's canonical little-endian bytes.
C8_SignalsCanonicalHex ==
    Delivered =>
        \A i \in 1..Len(DeliveredSignals) :
            /\ IsCanonicalHex(DeliveredSignals[i])
            /\ DeliveredSignals[i] = encode_signal(witness[i + 1])

\* The digits of a hex string, its optional "0x" taken off, and what makes
\* a string well formed: hexadecimal digits only; one or more decimal digits.
HexDigitsOf(s) ==
    IF Len(s) >= 2 /\ s[1] = "0" /\ s[2] = "x" THEN SubSeq(s, 3, Len(s)) ELSE s
IsHexDigit(c) ==
    c \in {"0", "1", "2", "3", "4", "5", "6", "7", "8", "9", "a", "b", "c",
           "d", "e", "f", "A", "B", "C", "D", "E", "F"}
IsDecDigit(c) == c \in {"0", "1", "2", "3", "4", "5", "6", "7", "8", "9"}
WellFormedHex(s) == \A i \in 1..Len(HexDigitsOf(s)) : IsHexDigit(HexDigitsOf(s)[i])
WellFormedDecimal(s) == s # <<>> /\ \A i \in 1..Len(s) : IsDecDigit(s[i])

\* C9: hex_to_field answers a string with a character that is no hex digit
\* after the optional "0x" with "Failed to decode hex"; decimal_to_field
\* answers every string that is not one or more decimal digits (empty,
\* signed, with a separator or any other character) with "Failed to parse
\* decimal string"; neither gives a field element for such a string.
C9_MalformedRejected ==
    /\ (codec.fn = "hex_to_field" /\ ~WellFormedHex(codec.input)) =>
          /\ ~codec.out.ok
          /\ codec.out.err = "Failed to decode hex"
    /\ (codec.fn = "decimal_to_field" /\ ~WellFormedDecimal(codec.input)) =>
          /\ ~codec.out.ok
          /\ codec.out.err = "Failed to parse decimal string"

\* The bytes a well-formed hex string writes, a leading 0 put before an odd
\* count of digits, two digits a byte.
BytesOfHex(s) ==
    LET d == IF Len(HexDigitsOf(s)) % 2 = 1 THEN <<"0">> \o HexDigitsOf(s)
             ELSE HexDigitsOf(s)
    IN  [j \in 1..(Len(d) \div 2) |-> 16 * HexVal(d[2 * j - 1]) + HexVal(d[2 * j])]

\* The little-endian bytes of the integer a decimal string writes: computed
\* for a string of at most 7 digits, known for the longer ones of the
\* inputs (the modulus, the modulus less one, 2^256 - 1, and
\* 12345678901234567890 = 0xAB54A98CEB1F0AD2).
BytesOfDecimal(s) ==
    LET v[i \in 0..Len(s)] == IF i = 0 THEN 0 ELSE 10 * v[i - 1] + DecVal(s[i])
    IN  IF Len(s) <= 7 THEN LimbBytes(v[Len(s)])
        ELSE IF s = DecModulus THEN Modulus
        ELSE IF s = DecModulusLessOne THEN [Modulus EXCEPT ![1] = 0]
        ELSE IF s = DecAllOnes THEN [i \in 1..FieldBytes |-> 255]
        ELSE <<210, 10, 31, 235, 140, 169, 84, 171>>

\* q times the modulus, for q up to 255.
ModulusTimes(q) ==
    BigAdd(BigMulSmall(BigMulSmall(Modulus, q \div 128), 128),
           BigMulSmall(Modulus, q % 128))

\* The integer of the little-endian bytes n[i..], modulo the modulus, by
\* the definition of the remainder: with r the remainder of n[i+1..], the
\* number n[i] + 256 * r less the largest multiple of the modulus in it.
RECURSIVE RemainderFrom(_, _)
RemainderFrom(n, i) ==
    IF i > Len(n) THEN <<>>
    ELSE LET r == RemainderFrom(n, i + 1)
             t == Normalize(<<n[i]>> \o r)
             q == CHOOSE k \in 0..255 :
                      /\ BigGe(t, ModulusTimes(k))
                      /\ ~BigGe(t, ModulusTimes(k + 1))
         IN  IF Len(r) < FieldBytes - 1 THEN t
             ELSE Normalize(BigSub(t, ModulusTimes(q)))

\* r is the field element of the integer the bytes n write: below the
\* modulus and equal to the integer modulo the modulus.
IsResidueOf(r, n) == IsCanonical(r) /\ BigEq(r, RemainderFrom(n, 1))

\* C10: a well-formed hex string decodes to the little-endian integer of its
\* bytes modulo the field modulus, a well-formed decimal string to its
\* integer modulo the field modulus; the decoded element is below the
\* modulus, and no such string is rejected, whatever its length or value.
C10_DecodesModuloP ==
    /\ (codec.fn = "hex_to_field" /\ WellFormedHex(codec.input)) =>
          /\ codec.out.ok
          /\ IsResidueOf(codec.out.val, BytesOfHex(codec.input))
    /\ (codec.fn = "decimal_to_field" /\ WellFormedDecimal(codec.input)) =>
          /\ codec.out.ok
          /\ IsResidueOf(codec.out.val, BytesOfDecimal(codec.input))

\* 32 bytes of ones, a value above the modulus: decoded and reduced.
C10_Witness ==
    /\ codec.fn = "hex_to_field"
    /\ codec.input = AllOnes
    /\ codec.out.ok
    /\ IsCanonical(codec.out.val)
    /\ codec.out.val # [i \in 1..FieldBytes |-> 255]

(***************************************************************************)
(* The public-signal encoder and hex_to_field, one after the other.        *)
(***************************************************************************)
MaxSmall == 16

\* Field elements in canonical form: the numbers up to MaxSmall, the 12345
\* of test_hex_conversion_roundtrip, one non-zero byte at each of the 32
\* places (the last place holds less than the modulus's 0x30), the modulus
\* less one, and 2^256 - 1 reduced.
FieldElements ==
    { PadTo(LimbBytes(v), FieldBytes) : v \in 0..MaxSmall \cup {12345} }
    \cup { [Zeros(FieldBytes) EXCEPT ![k] = b] :
              k \in 1..FieldBytes, b \in {1, 47} }
    \cup { [Zeros(FieldBytes) EXCEPT ![k] = 255] : k \in 1..(FieldBytes - 1) }
    \cup { [Modulus EXCEPT ![1] = 0], from_le_bytes_mod_order([i \in 1..FieldBytes |-> 255]) }

\* A decoded witness of one field element, nothing encoded yet.
RoundTripInit ==
    /\ adapter = "none"
    /\ pc = "idle"
    /\ req = [args |-> <<>>, circuit_type |-> "", witness |-> <<>>,
              num_public_signals |-> None]
    /\ \E x \in FieldElements : witness = <<x>>
    /\ circuit = NoCircuit
    /\ cs = NoWires
    /\ proof = "none"
    /\ count = None
    /\ signals = <<>>
    /\ trace = <<>>
    /\ stdout = <<>>
    /\ stderr = <<>>
    /\ result = NoResult
    /\ codec = NoCodec

\* The map of the public-signal extraction over the witness elements.
EncodeSignal ==
    /\ pc = "idle"
    /\ signals' = [i \in 1..Len(witness) |-> encode_signal(witness[i])]
    /\ pc' = "encoded"
    /\ UNCHANGED <<adapter, req, witness, circuit, cs, proof, count, trace,
                   stdout, stderr, result, codec>>

\* hex_to_field on the encoded element.
DecodeSignal ==
    /\ pc = "encoded"
    /\ codec' = [fn |-> "hex_to_field", input |-> signals[1],
                 out |-> hex_to_field(signals[1])]
    /\ pc' = "decoded"
    /\ UNCHANGED <<adapter, req, witness, circuit, cs, proof, count, signals,
                   trace, stdout, stderr, result>>

RoundTripNext == EncodeSignal \/ DecodeSignal

RoundTripSpec == RoundTripInit /\ [][RoundTripNext]_vars

\* C11: for a canonical field element x, hex_to_field of the public-signal
\* encoding of x ("0x" and the hex of its 32 little-endian bytes) is x.
C11_RoundTrip ==
    /\ \A i \in 1..Len(witness) : IsCanonical(witness[i])
    /\ pc \in {"encoded", "decoded"} =>
          /\ Len(signals[1]) = 2 + 2 * FieldBytes
          /\ SubSeq(signals[1], 1, 2) = <<"0", "x">>
    /\ pc = "decoded" =>
          /\ codec.out.ok
          /\ codec.out.val = witness[1]

\* The largest element, the modulus less one, has come back.
C11_Witness ==
    /\ pc = "decoded"
    /\ witness = <<[Modulus EXCEPT ![1] = 0]>>
    /\ codec.input = signals[1]
    /\ codec.out.ok
    /\ codec.out.val = [Modulus EXCEPT ![1] = 0]

(***************************************************************************)
(* decimal_to_field and hex_to_field on the same number.                   *)
(***************************************************************************)
\* The 16-bit halves the numbers below 2^32 are made of.
Halves == {0, 1, 9, 10, 255, 256, 12345, 32768, 65535}

\* The little-endian bytes of hi * 2^16 + lo.
NumberBytes(hi, lo) == <<lo % 256, lo \div 256, hi % 256, hi \div 256>>

\* The decimal digits of v, d of them, and as many as v needs.
FixedDigits(v, d) == [i \in 1..d |-> DecDigits[((v \div (10 ^ (d - i))) % 10) + 1]]
IntDigits(v) == FixedDigits(v, CHOOSE d \in 1..10 : v < 10 ^ d /\ (d = 1 \/ v >= 10 ^ (d - 1)))

\* n.to_string() for n = hi * 2^16 + lo: with 2^16 = 655 * 100 + 36 the
\* number is q * 10^5 + r, each part within the machine integers.
to_string(hi, lo) ==
    LET low == ((hi * 655) % 1000) * 100 + hi * 36 + lo
        q == (hi * 655) \div 1000 + low \div 100000
        r == low % 100000
    IN  IF q = 0 THEN IntDigits(r) ELSE IntDigits(q) \o FixedDigits(r, 5)

\* The hex strings of a number's little-endian bytes: the bytes it needs, or
\* padded with zero bytes to 4, 5 or 32 bytes, with and without "0x".
HexForms(bytes) ==
    { pre \o hex_encode(PadTo(Normalize(bytes), k)) :
        k \in {0, 4, 5, FieldBytes}, pre \in {<<>>, <<"0", "x">>} }

\* A number below 2^32, its decimal string and one of its hex strings.
AgreementInit ==
    /\ adapter = "none"
    /\ pc = "idle"
    /\ \E hi \in Halves, lo \in Halves :
         \E h \in HexForms(NumberBytes(hi, lo)) :
            req = [n |-> NumberBytes(hi, lo), decimal |-> to_string(hi, lo),
                   hex |-> h]
    /\ witness = <<>>
    /\ circuit = NoCircuit
    /\ cs = NoWires
    /\ proof = "none"
    /\ count = None
    /\ signals = <<>>
    /\ trace = <<>>
    /\ stdout = <<>>
    /\ stderr = <<>>
    /\ result = NoResult
    /\ codec = NoCodec

\* decimal_to_field(..).unwrap() on the decimal string.
AgreeDecimalToField ==
    /\ pc = "idle"
    /\ codec' = [fn |-> "decimal_to_field", input |-> req.decimal,
                 out |-> decimal_to_field(req.decimal)]
    /\ IF codec'.out.ok
       THEN witness' = Append(witness, codec'.out.val) /\ pc' = "decimal"
       ELSE witness' = witness /\ pc' = "done"
    /\ UNCHANGED <<adapter, req, circuit, cs, proof, count, signals, trace,
                   stdout, stderr, result>>

\* hex_to_field(..).unwrap() on the hex string.
AgreeHexToField ==
    /\ pc = "decimal"
    /\ codec' = [fn |-> "hex_to_field", input |-> req.hex,
                 out |-> hex_to_field(req.hex)]
    /\ IF codec'.out.ok
       THEN witness' = Append(witness, codec'.out.val) /\ pc' = "hex"
       ELSE witness' = witness /\ pc' = "done"
    /\ UNCHANGED <<adapter, req, circuit, cs, proof, count, signals, trace,
                   stdout, stderr, result>>

AgreementNext == AgreeDecimalToField \/ AgreeHexToField

AgreementSpec == AgreementInit /\ [][AgreementNext]_vars

\* C12: for a number n below 2^32, decimal_to_field of n's decimal string
\* and hex_to_field of the hex of n's little-endian bytes (with or without
\* zero bytes after them, up to 32 bytes, with or without "0x") both
\* succeed and give the same field element, the element n.
C12_DecimalHexAgree ==
    /\ pc # "done"
    /\ pc = "decimal" => witness = <<PadTo(req.n, FieldBytes)>>
    /\ pc = "hex" => /\ Len(witness) = 2
                     /\ witness[1] = witness[2]
                     /\ witness[2] = PadTo(req.n, FieldBytes)

\* 2^32 - 1, decimal against its four bytes without prefix.
C12_Witness ==
    /\ pc = "hex"
    /\ req.decimal = <<"4", "2", "9", "4", "9", "6", "7", "2", "9", "5">>
    /\ req.hex = <<"f", "f", "f", "f", "f", "f", "f", "f">>
    /\ witness[1] = witness[2]

(***************************************************************************)
(* WitnessCircuit handed to the prover on its own.                         *)
(***************************************************************************)
MaxShort == 20
MaxHundreds == 11

\* Witness lengths: the short ones, and those about each multiple of 100,
\* where the estimated public-input count changes.
CircuitLengths ==
    0..MaxShort
    \cup UNION { {100 * h - 1, 100 * h, 100 * h + 1} : h \in 1..MaxHundreds }

\* The witness Bn254Fr::from(1), Bn254Fr::from(2), .. of the given length.
CountingWitness(len) == [i \in 1..len |-> PadTo(LimbBytes(i), FieldBytes)]

\* A decoded witness, no circuit yet.
CircuitInit ==
    /\ adapter = "none"
    /\ pc = "idle"
    /\ req = [args |-> <<>>, circuit_type |-> "", witness |-> <<>>,
              num_public_signals |-> None]
    /\ \E len \in CircuitLengths : witness = CountingWitness(len)
    /\ circuit = NoCircuit
    /\ cs = NoWires
    /\ proof = "none"
    /\ count = None
    /\ signals = <<>>
    /\ trace = <<>>
    /\ stdout = <<>>
    /\ stderr = <<>>
    /\ result = NoResult
    /\ codec = NoCodec

\* WitnessCircuit { witness }
NewWitnessCircuit ==
    /\ pc = "idle"
    /\ circuit' = [built |-> TRUE, witness |-> witness]
    /\ pc' = "synthesize"
    /\ UNCHANGED <<adapter, req, witness, cs, proof, count, signals, trace,
                   stdout, stderr, result, codec>>

\* The prover's call of generate_constraints on the circuit.
GenerateConstraints ==
    /\ pc = "synthesize"
    /\ cs' = generate_constraints(circuit.witness)
    /\ pc' = "declared"
    /\ UNCHANGED <<adapter, req, witness, circuit, proof, count, signals,
                   trace, stdout, stderr, result, codec>>

CircuitNext == NewWitnessCircuit \/ GenerateConstraints

CircuitSpec == CircuitInit /\ [][CircuitNext]_vars

\* C13: generate_constraints declares every witness index 1..L-1 once, the
\* public wires first, in increasing order, and never index 0; public and
\* private wires together are max(L - 1, 0); every public wire it counted
\* is declared (the test i + 1 < len holds each time).
C13_EveryWireOnce ==
    pc = "declared" =>
        LET L == Len(circuit.witness)
            wires == cs.input \o cs.witness
        IN  /\ Len(wires) = Max(L - 1, 0)
            /\ \A k \in 1..Len(wires) : wires[k] = k
            /\ \A k \in 1..Len(wires) : wires[k] # 0
            /\ \A j \in 1..(L - 1) :
                  Cardinality({k \in 1..Len(wires) : wires[k] = j}) = 1
            /\ Len(cs.input) + Len(cs.witness) = Max(L - 1, 0)
            /\ Len(cs.input) = num_public(circuit.witness)

\* A witness of 200 elements: two public wires, then the 197 private ones.
C13_Witness ==
    /\ pc = "declared"
    /\ Len(circuit.witness) = 200
    /\ cs.input = <<1, 2>>
    /\ Len(cs.witness) = 197
    /\ cs.witness[1] = 3

====
